---------------------------- MODULE Spec2Model ----------------------------
(***************************************************************************)
(* Model of the two Open WebUI pipes of intelligent-rag-server:            *)
(*   Flavor A  src/intelligent_rag_pipe.py                                 *)
(*   Flavor B  src/openwebui_pipe.py                                       *)
(* One adapter instance (valves, last_emit_time) is shared by the          *)
(* invocations of pipe().  pipe() is a coroutine: the only points where it *)
(* gives the event loop to another invocation are the awaits of the event  *)
(* sink inside emit_status (requests.post is a blocking call).  `running`  *)
(* is the coroutine that holds the event loop.                             *)
(***************************************************************************)
EXTENDS Integers, Sequences, FiniteSets, TLC

\* ------------------------------------------------------------------ bounds
\* the clock advances at most this many seconds past its first reading
MaxTime == 1
\* the clock's reading when the adapter is constructed (time.time() is far
\* from 0, the initial last_emit_time)
Epoch == 5

\* ------------------------------------------------------- program constants
\* Valves.emit_interval default
DefaultEmitInterval == 2
\* Valves.thinking_depth default
DefaultThinkingDepth == 2
\* the HTTP status that is interpreted as a reply
HTTP_OK == 200

\* the invocations of pipe() that can be in progress at once on the one adapter
\* instance
Procs == {1, 2}
Flavors == {"A", "B"}
\* values of Valves.emit_interval the model is run with
EmitIntervals == {1, DefaultEmitInterval}

\* -------------------------------------------------------------- JSON values
JStr(s) == [t |-> "str", s |-> s]
JNull == [t |-> "null", s |-> ""]
JAbsent == [t |-> "absent", s |-> ""]

\* Python truthiness of a decoded JSON value
Truthy(v) == v.t = "str" /\ v.s # ""
\* str(v) as an f-string formats it
PyStr(v) == IF v.t = "str" THEN v.s ELSE "None"
\* json.dumps(v, indent=2)
JsonDumps(v) == IF v.t = "str" THEN "\"" \o v.s \o "\"" ELSE "null"

\* ---------------------------------------------------------------- messages
Msg(role, content) == [role |-> role, content |-> content]

\* the message lists a chat turn arrives with (body always holds the key
\* "messages", and every message a role and a content)
MessageLists ==
    { <<>>,
      <<Msg("user", "q1")>>,
      <<Msg("user", "q1"), Msg("assistant", "a1")>>,
      <<Msg("system", "s0"), Msg("user", "q0"), Msg("user", "q2")>> }

\* ------------------------------------------------ outcomes of requests.post
JsonObject(has_answer, answer_text, log) ==
    [shape |-> "object", has_answer |-> has_answer, answer |-> answer_text, log |-> log]
JsonInvalid == [shape |-> "invalid", has_answer |-> FALSE, answer |-> "", log |-> JAbsent]

HttpResponse(status, text, js) ==
    [kind |-> "http", status |-> status, text |-> text, js |-> js]
TransportError(text) ==
    [kind |-> "exception", status |-> 0, text |-> text, js |-> JsonInvalid]

NoResponse == [kind |-> "none", status |-> 0, text |-> "", js |-> JsonInvalid]

Responses ==
    { HttpResponse(HTTP_OK, "", JsonObject(TRUE, "X", JAbsent)),
      HttpResponse(HTTP_OK, "", JsonObject(TRUE, "X", JStr("Y"))),
      HttpResponse(HTTP_OK, "", JsonObject(TRUE, "X", JStr(""))),
      HttpResponse(HTTP_OK, "", JsonObject(FALSE, "", JStr("Y"))),
      HttpResponse(HTTP_OK, "<html>", JsonInvalid),
      HttpResponse(500, "server error", JsonInvalid),
      HttpResponse(404, "not found", JsonInvalid),
      TransportError("Connection refused") }

\* the inputs of the runs in which invocations overlap
FewMessageLists == { <<>>, <<Msg("user", "q1")>> }
FewResponses ==
    { HttpResponse(HTTP_OK, "", JsonObject(TRUE, "X", JStr("Y"))),
      HttpResponse(500, "server error", JsonInvalid) }

\* str(e) of the exception response.json() raises on an undecodable body
JsonErrorText == "Expecting value: line 1 column 1 (char 0)"
\* str(KeyError("answer"))
KeyErrorText == "'answer'"

\* raise Exception(f"Error: {response.status_code} - {response.text}")
StatusErrorText(resp) == "Error: " \o ToString(resp.status) \o " - " \o resp.text

\* -------------------------------------------------------------- emit_status
\* the event emit_status hands to the sink
StatusEvent(level, message, done) ==
    [type |-> "status",
     status |-> IF done THEN "complete" ELSE "in_progress",
     level |-> level, description |-> message, done |-> done]

ShouldEmitStrict(sink, enabled, current_time, last, interval, done) ==
    sink /\ enabled /\ (current_time - last > interval \/ done)

ShouldEmitTerminalAlways(sink, enabled, current_time, last, interval, done) ==
    sink /\ ((enabled /\ current_time - last >= interval) \/ done)

\* the condition under which emit_status sends
ShouldEmit(sink, enabled, current_time, last, interval, done) ==
    sink /\ enabled /\ (current_time - last >= interval \/ done)

TimestampAtSendEager(last, current_time) == current_time

\* last_emit_time as the step that hands the event to the sink leaves it: the
\* assignment follows the await, so the send itself writes nothing
TimestampAtSend(last, current_time) == last

\* ------------------------------------------------------------ pipe: request
QuestionFirst(messages) == messages[1].content

\* question = messages[-1]["content"]
Question(messages) == messages[Len(messages)].content

RECURSIVE Join(_)
\* "\n".join(lines)
Join(lines) ==
    IF Len(lines) = 1 THEN lines[1]
    ELSE lines[1] \o "\n" \o Join(Tail(lines))

RECURSIVE ContextLines(_)
\* the "role: content" lines of the assistant and user messages
ContextLines(messages) ==
    IF messages = <<>> THEN <<>>
    ELSE LET m == Head(messages)
         IN (IF m.role \in {"assistant", "user"}
             THEN <<m.role \o ": " \o m.content>> ELSE <<>>)
            \o ContextLines(Tail(messages))

\* Flavor B: the context built from messages[:-1]
ContextOf(messages) ==
    LET lines == ContextLines(SubSeq(messages, 1, Len(messages) - 1))
    IN IF lines = <<>> THEN JNull ELSE JStr(Join(lines))

\* the JSON payload of the POST to <server_url>/api/query
Payload(fl, messages) ==
    [projectId |-> "default",
     query |-> Question(messages),
     thinkingDepth |-> DefaultThinkingDepth,
     context |-> IF fl = "B" THEN ContextOf(messages) ELSE JAbsent]

\* ------------------------------------------------------- pipe: the response
Success(append, answer_text) ==
    [ok |-> TRUE, append |-> append, answer |-> answer_text, err |-> ""]
Failure(err) ==
    [ok |-> FALSE, append |-> <<>>, answer |-> "", err |-> err]

ReplyMessagesALogLast(answer_text, log) ==
    <<Msg("assistant", answer_text)>>
    \o (IF Truthy(log) THEN <<Msg("system", "Thinking process:\n" \o PyStr(log))>>
        ELSE <<>>)

\* Flavor A: the messages appended for a decoded reply
ReplyMessagesA(answer_text, log) ==
    (IF Truthy(log) THEN <<Msg("system", "Thinking process:\n" \o PyStr(log))>>
     ELSE <<>>)
    \o <<Msg("assistant", answer_text)>>

\* the three backquotes of a Markdown code fence (a TLA+ string cannot hold a
\* backquote, so the fence is written with quotes)
Fence == "'''"

\* Flavor B: the answer text, with the reasoning block when "log" is a key
AnswerTextB(answer_text, log) ==
    IF log.t # "absent"
    THEN answer_text \o "\n\n" \o Fence \o "json\nReasoning:\n" \o JsonDumps(log)
                \o "\n" \o Fence
    ELSE answer_text

\* Flavor A: what the try block makes of the response
InterpretA(resp) ==
    IF resp.kind = "exception" THEN Failure(resp.text)
    ELSE IF resp.status = HTTP_OK
    THEN IF resp.js.shape = "invalid" THEN Failure(JsonErrorText)
         ELSE LET answer_text == IF resp.js.has_answer THEN resp.js.answer ELSE ""
                  log == IF resp.js.log.t = "absent" THEN JStr("") ELSE resp.js.log
              IN Success(ReplyMessagesA(answer_text, log), answer_text)
    ELSE Failure(StatusErrorText(resp))

\* Flavor B: what the try block makes of the response
InterpretB(resp) ==
    IF resp.kind = "exception" THEN Failure(resp.text)
    ELSE IF resp.status = HTTP_OK
    THEN IF resp.js.shape = "invalid" THEN Failure(JsonErrorText)
         ELSE IF ~resp.js.has_answer THEN Failure(KeyErrorText)
         ELSE LET answer_text == AnswerTextB(resp.js.answer, resp.js.log)
              IN Success(<<Msg("assistant", answer_text)>>, answer_text)
    ELSE Failure(StatusErrorText(resp))

Interpret(fl, resp) == IF fl = "A" THEN InterpretA(resp) ELSE InterpretB(resp)

ErrorPrefix == "Error during RAG query: "
NoMessagesText == "No messages found in the request body"

\* ------------------------------------------------------------------- state
VARIABLES
    flavor,                  \* which of the two modules the adapter is
    enable_status_indicator, \* valves.enable_status_indicator
    emit_interval,           \* valves.emit_interval
    last_emit_time,          \* self.last_emit_time
    now,                     \* what time.time() returns
    running,                 \* the invocation holding the event loop: {} or {p}
    pc,                      \* position of each invocation of pipe()
    entry,                   \* body["messages"] as the invocation received it
    body,                    \* body["messages"]
    emitter,                 \* whether __event_emitter__ was supplied
    em,                      \* arguments and locals of the emit_status call in progress
    sunk,                    \* the events the invocation's sink has been handed
    payload,                 \* local payload
    posted,                  \* the payloads requests.post has sent
    response,                \* local response: what requests.post gave or raised
    answer,                  \* local answer: bound or not, and its value
    error,                   \* the text of the error result being returned
    ret,                     \* what pipe() gave the host
    calls                    \* the last two emit_status calls made on the instance

vars == <<flavor, enable_status_indicator, emit_interval, last_emit_time, now,
          running, pc, entry, body, emitter, em, sunk, payload, posted, response,
          answer, error, ret, calls>>

config == <<flavor, enable_status_indicator, emit_interval>>

EmitArgs(level, message, done, k) ==
    [level |-> level, message |-> message, done |-> done, current_time |-> 0, k |-> k]

\* no emit_status call in progress
NoEmit == EmitArgs("", "", FALSE, "idle")

NoValue == [kind |-> "none", v |-> ""]
Returned(v) == [kind |-> "str", v |-> v]
ErrorResult(v) == [kind |-> "error", v |-> v]
Raised(v) == [kind |-> "raise", v |-> v]

Unbound == [bound |-> FALSE, v |-> ""]
Bound(v) == [bound |-> TRUE, v |-> v]

\* the last two entries of a log
LastTwo(log) == IF Len(log) <= 2 THEN log ELSE SubSeq(log, Len(log) - 1, Len(log))

\* the first status message of pipe()
StartText(fl) ==
    IF fl = "A" THEN "Querying intelligent RAG server..."
    ELSE "Calling Intelligent RAG Server..."

\* the status message of a successful reply
SuccessText(fl) ==
    IF fl = "A" THEN "Complete" ELSE "Response generated successfully"

\* Pipe.__init__, and the valves the host loads
Init ==
    /\ flavor \in Flavors
    /\ enable_status_indicator \in BOOLEAN
    /\ emit_interval \in EmitIntervals
    /\ last_emit_time = 0
    /\ now = Epoch
    /\ running = {}
    /\ pc = [p \in Procs |-> "idle"]
    /\ entry = [p \in Procs |-> <<>>]
    /\ body = [p \in Procs |-> <<>>]
    /\ emitter = [p \in Procs |-> FALSE]
    /\ em = [p \in Procs |-> NoEmit]
    /\ sunk = [p \in Procs |-> <<>>]
    /\ payload = [p \in Procs |-> Payload("A", <<Msg("", "")>>)]
    /\ posted = [p \in Procs |-> <<>>]
    /\ response = [p \in Procs |-> NoResponse]
    /\ answer = [p \in Procs |-> Unbound]
    /\ error = [p \in Procs |-> ""]
    /\ ret = [p \in Procs |-> NoValue]
    /\ calls = <<>>

\* time passes
Tick ==
    /\ now < Epoch + MaxTime
    /\ now' = now + 1
    /\ UNCHANGED <<config, last_emit_time, running, pc, entry, body, emitter, em,
                   sunk, payload, posted, response, answer, error, ret, calls>>

\* the host calls pipe(body, __event_emitter__): up to the first emit_status
Invoke(p, msgs, sk) ==
    /\ running = {}
    /\ pc[p] = "idle"
    /\ \A q \in Procs : q < p => pc[q] # "idle"
    /\ entry' = [entry EXCEPT ![p] = msgs]
    /\ body' = [body EXCEPT ![p] = msgs]
    /\ emitter' = [emitter EXCEPT ![p] = sk]
    /\ em' = [em EXCEPT ![p] = EmitArgs("info", StartText(flavor), FALSE, "validate")]
    /\ pc' = [pc EXCEPT ![p] = "emit"]
    /\ running' = {p}
    /\ UNCHANGED <<config, last_emit_time, now, sunk, payload, posted, response, answer,
                   error, ret, calls>>

\* the host calls pipe() only when it has the result of every earlier call
InvokeSeq(p, msgs, sk) ==
    /\ \A q \in Procs : pc[q] = "idle"
    /\ Invoke(p, msgs, sk)

\* emit_status up to the await of the sink (or to its end when nothing is sent)
EmitStatus(p) ==
    /\ running = {p}
    /\ pc[p] = "emit"
    /\ LET a == em[p]
           send == ShouldEmit(emitter[p], enable_status_indicator, now,
                              last_emit_time, emit_interval, a.done)
       IN /\ calls' = LastTwo(Append(calls, [p |-> p, t |-> now,
                                             last |-> last_emit_time,
                                             done |-> a.done, sink |-> emitter[p],
                                             sent |-> send]))
          /\ IF send
             THEN /\ em' = [em EXCEPT ![p].current_time = now]
                  /\ sunk' = [sunk EXCEPT ![p] =
                                 Append(@, StatusEvent(a.level, a.message, a.done))]
                  /\ last_emit_time' = TimestampAtSend(last_emit_time, now)
                  /\ pc' = [pc EXCEPT ![p] = "await"]
                  /\ running' = {}
             ELSE /\ em' = [em EXCEPT ![p] = NoEmit]
                  /\ pc' = [pc EXCEPT ![p] = a.k]
                  /\ UNCHANGED <<sunk, last_emit_time, running>>
    /\ UNCHANGED <<config, now, entry, body, emitter, payload, posted, response, answer,
                   error, ret>>

\* the sink's await returns: self.last_emit_time = current_time
EmitResume(p) ==
    /\ running = {}
    /\ pc[p] = "await"
    /\ last_emit_time' = em[p].current_time
    /\ pc' = [pc EXCEPT ![p] = em[p].k]
    /\ em' = [em EXCEPT ![p] = NoEmit]
    /\ running' = {p}
    /\ UNCHANGED <<config, now, entry, body, emitter, sunk, payload, posted, response,
                   answer, error, ret, calls>>

\* messages = body.get("messages", []); if messages: ... else: ...
Validate(p) ==
    /\ running = {p}
    /\ pc[p] = "validate"
    /\ IF body[p] # <<>>
       THEN /\ payload' = [payload EXCEPT ![p] = Payload(flavor, body[p])]
            /\ IF flavor = "B"
               THEN /\ em' = [em EXCEPT ![p] =
                                EmitArgs("info", "Processing query...", FALSE, "dispatch")]
                    /\ pc' = [pc EXCEPT ![p] = "emit"]
               ELSE /\ pc' = [pc EXCEPT ![p] = "dispatch"]
                    /\ UNCHANGED em
       ELSE /\ em' = [em EXCEPT ![p] = EmitArgs("error", NoMessagesText, TRUE, "nomsg")]
            /\ pc' = [pc EXCEPT ![p] = "emit"]
            /\ UNCHANGED payload
    /\ UNCHANGED <<config, last_emit_time, now, running, entry, body, emitter, sunk,
                   posted, response, answer, error, ret, calls>>

\* requests.post and the rest of the try block, up to the terminal emit_status
Dispatch(p, resp) ==
    /\ running = {p}
    /\ pc[p] = "dispatch"
    /\ posted' = [posted EXCEPT ![p] = Append(@, payload[p])]
    /\ response' = [response EXCEPT ![p] = resp]
    /\ LET r == Interpret(flavor, resp)
       IN IF r.ok
          THEN /\ body' = [body EXCEPT ![p] = @ \o r.append]
               /\ answer' = [answer EXCEPT ![p] = Bound(r.answer)]
               /\ em' = [em EXCEPT ![p] =
                           EmitArgs("info", SuccessText(flavor), TRUE, "return_answer")]
               /\ UNCHANGED error
          ELSE /\ error' = [error EXCEPT ![p] =
                              IF flavor = "A" THEN r.err ELSE ErrorPrefix \o r.err]
               /\ em' = [em EXCEPT ![p] =
                           EmitArgs("error", ErrorPrefix \o r.err, TRUE, "return_error")]
               /\ UNCHANGED <<body, answer>>
    /\ pc' = [pc EXCEPT ![p] = "emit"]
    /\ UNCHANGED <<config, last_emit_time, now, running, entry, emitter, sunk,
                   payload, ret, calls>>

\* the else branch after its emit_status: the message is appended; Flavor B
\* returns the error, Flavor A goes on to the emit_status that ends pipe()
NoMessages(p) ==
    /\ running = {p}
    /\ pc[p] = "nomsg"
    /\ body' = [body EXCEPT ![p] = Append(@, Msg("assistant", NoMessagesText))]
    /\ IF flavor = "B"
       THEN /\ ret' = [ret EXCEPT ![p] = ErrorResult(NoMessagesText)]
            /\ pc' = [pc EXCEPT ![p] = "done"]
            /\ UNCHANGED em
       ELSE /\ em' = [em EXCEPT ![p] = EmitArgs("info", "Complete", TRUE, "return_answer")]
            /\ pc' = [pc EXCEPT ![p] = "emit"]
            /\ UNCHANGED ret
    /\ UNCHANGED <<config, last_emit_time, now, running, entry, emitter, sunk, payload,
                   posted, response, answer, error, calls>>

\* return answer: an unbound local raises UnboundLocalError out of pipe()
ReturnAnswer(p) ==
    /\ running = {p}
    /\ pc[p] = "return_answer"
    /\ ret' = [ret EXCEPT ![p] =
                 IF answer[p].bound THEN Returned(answer[p].v)
                 ELSE Raised("UnboundLocalError")]
    /\ pc' = [pc EXCEPT ![p] = "done"]
    /\ UNCHANGED <<config, last_emit_time, now, running, entry, body, emitter, em, sunk,
                   payload, posted, response, answer, error, calls>>

\* return {"error": ...} from the except branch
ReturnError(p) ==
    /\ running = {p}
    /\ pc[p] = "return_error"
    /\ ret' = [ret EXCEPT ![p] = ErrorResult(error[p])]
    /\ pc' = [pc EXCEPT ![p] = "done"]
    /\ UNCHANGED <<config, last_emit_time, now, running, entry, body, emitter, em, sunk,
                   payload, posted, response, answer, error, calls>>

\* the host, awaiting pipe(), goes on with what pipe() gave it as soon as it
\* returns or raises; the chat turn is over and the event loop is free
Collect(p) ==
    /\ running = {p}
    /\ pc[p] = "done"
    /\ running' = {}
    /\ pc' = [pc EXCEPT ![p] = "idle"]
    /\ entry' = [entry EXCEPT ![p] = <<>>]
    /\ body' = [body EXCEPT ![p] = <<>>]
    /\ emitter' = [emitter EXCEPT ![p] = FALSE]
    /\ em' = [em EXCEPT ![p] = NoEmit]
    /\ sunk' = [sunk EXCEPT ![p] = <<>>]
    /\ payload' = [payload EXCEPT ![p] = Payload("A", <<Msg("", "")>>)]
    /\ posted' = [posted EXCEPT ![p] = <<>>]
    /\ response' = [response EXCEPT ![p] = NoResponse]
    /\ answer' = [answer EXCEPT ![p] = Unbound]
    /\ error' = [error EXCEPT ![p] = ""]
    /\ ret' = [ret EXCEPT ![p] = NoValue]
    /\ UNCHANGED <<config, last_emit_time, now, calls>>

Step(p, responses) ==
    \/ EmitStatus(p)
    \/ EmitResume(p)
    \/ Validate(p)
    \/ \E resp \in responses : Dispatch(p, resp)
    \/ NoMessages(p)
    \/ ReturnAnswer(p)
    \/ ReturnError(p)
    \/ Collect(p)

\* the host makes one invocation at a time
Next ==
    \/ Tick
    \/ \E p \in Procs, msgs \in MessageLists, sk \in BOOLEAN : InvokeSeq(p, msgs, sk)
    \/ \E p \in Procs : Step(p, Responses)

\* invocations may overlap at the awaits of the sink
NextConc ==
    \/ Tick
    \/ \E p \in Procs, msgs \in FewMessageLists, sk \in BOOLEAN : Invoke(p, msgs, sk)
    \/ \E p \in Procs : Step(p, FewResponses)

Spec == Init /\ [][Next]_vars

ConcSpec == Init /\ [][NextConc]_vars

\* ------------------------------------------------------------ the properties
Last(seq) == seq[Len(seq)]

\* notifications are enabled and the invocation was given a sink
Notifying(p) == enable_status_indicator /\ emitter[p]

\* the terminal events the invocation's sink has been handed
Terminals(p) == SelectSeq(sunk[p], LAMBDA e : e.done)

\* the response was a 200 whose JSON object holds an answer
GotAnswer(p) ==
    /\ response[p].kind = "http"
    /\ response[p].status = HTTP_OK
    /\ response[p].js.shape = "object"
    /\ response[p].js.has_answer

\* C1: with notifications enabled and a sink supplied, of the emit_status calls
\* made one after the other a non-terminal call sends exactly when the time it
\* reads is at least emit_interval past last_emit_time, a terminal call always
\* sends, and a non-terminal call made less than emit_interval after a
\* non-terminal call that was sent is not sent.
C1_Throttle ==
    /\ \A i \in 1..Len(calls) :
          (enable_status_indicator /\ calls[i].sink) =>
             IF calls[i].done THEN calls[i].sent
             ELSE calls[i].sent <=> (calls[i].t - calls[i].last >= emit_interval)
    /\ ( /\ Len(calls) = 2
         /\ enable_status_indicator
         /\ calls[1].sink /\ calls[2].sink
         /\ ~calls[1].done /\ ~calls[2].done
         /\ calls[1].sent
         /\ calls[2].t - calls[1].t < emit_interval )
       => ~calls[2].sent

\* C1 witness: a non-terminal call was sent and the next non-terminal call, made
\* less than emit_interval later, was throttled.
C1_Witness ==
    /\ Len(calls) = 2
    /\ enable_status_indicator
    /\ calls[1].sink /\ calls[2].sink
    /\ ~calls[1].done /\ ~calls[2].done
    /\ calls[1].sent /\ ~calls[2].sent
    /\ calls[2].t - calls[1].t < emit_interval

\* C2: with enable_status_indicator false, or with no sink, emit_status is a
\* no-op: the invocation's sink is handed nothing, the call is never suspended
\* at a send, and the step that runs emit_status leaves last_emit_time as it was.
C2_NoOp ==
    /\ [](\A p \in Procs :
            ~Notifying(p) => (sunk[p] = <<>> /\ pc[p] # "await"))
    /\ [][\A p \in Procs :
            (pc[p] = "emit" /\ pc'[p] # "emit" /\ ~Notifying(p))
               => (sunk' = sunk /\ last_emit_time' = last_emit_time)]_vars

\* C2 witness: an invocation with notifications off or without a sink has made
\* its terminal call, long enough after the last emission to pass the throttle,
\* and nothing was sent.
C2_Witness ==
    \E p \in Procs :
        /\ pc[p] = "done"
        /\ ~Notifying(p)
        /\ calls # <<>>
        /\ Last(calls).p = p
        /\ Last(calls).done
        /\ ~Last(calls).sent
        /\ Last(calls).t - Last(calls).last >= emit_interval
        /\ sunk[p] = <<>>

\* C3: an invocation with an empty message list returns a structured error,
\* leaves exactly the one assistant message "No messages found in the request
\* body" in the list, and makes no HTTP request.
C3_EmptyList ==
    \A p \in Procs :
        (pc[p] = "done" /\ entry[p] = <<>>) =>
            /\ ret[p].kind = "error"
            /\ body[p] = <<Msg("assistant", NoMessagesText)>>
            /\ posted[p] = <<>>

\* C4: on a non-200 status s with body b pipe returns the error
\* "Error during RAG query: Error: <s> - <b>" and leaves the message list as it
\* was on entry.
C4_Non200 ==
    \A p \in Procs :
        ( /\ pc[p] = "done"
          /\ response[p].kind = "http"
          /\ response[p].status # HTTP_OK ) =>
            /\ ret[p] = ErrorResult("Error during RAG query: Error: "
                                    \o ToString(response[p].status) \o " - "
                                    \o response[p].text)
            /\ body[p] = entry[p]

\* C5: a 200 response whose JSON object lacks "answer" is a failure: a terminal
\* error notification, a structured error result, and no message appended.
C5_MissingAnswer ==
    \A p \in Procs :
        ( /\ pc[p] = "done"
          /\ response[p].kind = "http"
          /\ response[p].status = HTTP_OK
          /\ response[p].js.shape = "object"
          /\ ~response[p].js.has_answer ) =>
            /\ ret[p].kind = "error"
            /\ body[p] = entry[p]
            /\ Notifying(p) =>
                  (sunk[p] # <<>> /\ Last(sunk[p]).done
                                  /\ Last(sunk[p]).level = "error")

\* C6: every invocation ends by returning the answer string or a structured
\* error; none ends in an uncaught exception.
C6_AlwaysReturns ==
    \A p \in Procs : pc[p] = "done" => ret[p].kind \in {"str", "error"}

\* C7: after a 200 response with answer X the list is the list on entry plus the
\* reply; its last message is the assistant message whose content pipe returns;
\* without a log one message was appended, with content X; Flavor A with a
\* non-empty log appended "Thinking process:\n<log>" as a system message and
\* then the assistant message X, and returns X; Flavor B appended one message,
\* whose content differs from X exactly when a log is present.
C7_SuccessReply ==
    \A p \in Procs :
        (pc[p] = "done" /\ GotAnswer(p)) =>
            LET X == response[p].js.answer
                log == response[p].js.log
                n == Len(entry[p])
                b == body[p]
            IN /\ Len(b) > n
               /\ SubSeq(b, 1, n) = entry[p]
               /\ Last(b).role = "assistant"
               /\ ret[p] = Returned(Last(b).content)
               /\ log.t = "absent" => (Len(b) = n + 1 /\ Last(b).content = X)
               /\ (flavor = "A" /\ log.t = "str" /\ log.s # "") =>
                     /\ Len(b) = n + 2
                     /\ b[n + 1] = Msg("system", "Thinking process:\n" \o log.s)
                     /\ b[n + 2] = Msg("assistant", X)
                     /\ ret[p] = Returned(X)
               /\ flavor = "B" =>
                     /\ Len(b) = n + 1
                     /\ (Last(b).content # X) <=> (log.t # "absent")

\* C7 witness: Flavor A has answered a reply that carries a non-empty log.
C7_Witness ==
    \E p \in Procs :
        /\ pc[p] = "done"
        /\ GotAnswer(p)
        /\ flavor = "A"
        /\ Truthy(response[p].js.log)
        /\ Len(entry[p]) > 1
        /\ Len(body[p]) = Len(entry[p]) + 2

\* C8: an invocation posts at most one payload, and its query field is the
\* content of the last message of the list it was given.
C8_QueryIsLastMessage ==
    \A p \in Procs :
        posted[p] # <<>> =>
            /\ Len(posted[p]) = 1
            /\ entry[p] # <<>>
            /\ posted[p][1].query = entry[p][Len(entry[p])].content

\* C8 witness: a list of three messages has been posted, and its first message
\* differs from its last.
C8_Witness ==
    \E p \in Procs :
        /\ Len(posted[p]) = 1
        /\ Len(entry[p]) = 3
        /\ entry[p][1].content # entry[p][3].content
        /\ entry[p][2].content # entry[p][3].content

\* C9: the step of emit_status that hands the event to the sink does not write
\* last_emit_time (the write follows the await), so the check and the update
\* are two steps between which another invocation can run.
C9_WriteAfterAwait ==
    [][\A p \in Procs :
        (pc[p] = "emit" /\ pc'[p] = "await") => last_emit_time' = last_emit_time]_vars

\* C9 witness: two invocations have each sent a non-terminal status event, the
\* second less than emit_interval after the first, while the first is still
\* suspended at its send.
C9_Witness ==
    /\ Len(calls) = 2
    /\ calls[1].p # calls[2].p
    /\ ~calls[1].done /\ ~calls[2].done
    /\ calls[1].sent /\ calls[2].sent
    /\ calls[2].t - calls[1].t < emit_interval
    /\ pc[calls[1].p] = "await"
    /\ pc[calls[2].p] = "await"

\* C10: with notifications enabled and a sink supplied, an invocation sends
\* exactly one terminal event, which is the last event it sends, and on success
\* it is sent after the reply was appended.
C10_OneTerminalEvent ==
    \A p \in Procs :
        Notifying(p) =>
            /\ Len(Terminals(p)) <= 1
            /\ Terminals(p) # <<>> => Last(sunk[p]).done
            /\ pc[p] = "done" => Len(Terminals(p)) = 1
            /\ (Terminals(p) # <<>> /\ GotAnswer(p)) => Len(body[p]) > Len(entry[p])

=============================================================================
